---- MODULE Spec2Model ----
(***************************************************************************)
(* Model of the LED data-cabling planner of src/app.py: the serpentine     *)
(* walk and greedy port partitioning of generate_topology, and the per-    *)
(* port report the application derives from its result.                    *)
(***************************************************************************)
EXTENDS Integers, Sequences, FiniteSets, TLC

\* ------------------------------------------------------------------ bounds
MaxW == 3
MaxH == 3
MaxResW == 3
MaxCap == 4

\* ------------------------------------------------------- program constants
PIXEL_CAPACITY_PER_PORT == 650000
MinPanels == 1

\* ---------------------------------------------------------- input domains
\* Grid sizes the number_input widgets accept (min_value = 1).
WidthSet == MinPanels..MaxW
HeightSet == MinPanels..MaxH
\* Panel resolutions: small ones, and those giving 50, 100 and 500 pixels.
ResWSet == (1..MaxResW) \cup {5, 10, 50}
ResHSet == {1, 10}
\* Port capacities: small ones, 50, 250, 400 and the application's constant.
CapSet == (1..MaxCap) \cup {50, 250, 400, PIXEL_CAPACITY_PER_PORT}
\* Arguments generate_topology accepts when called without the widgets.
AnyWidthSet == (-1..0) \cup WidthSet
AnyHeightSet == (-1..0) \cup HeightSet
AnyCapSet == (-1..0) \cup CapSet

VARIABLES panels_w, panels_h, panel_res_w, panel_res_h, max_pixels,
          panel_pixels, topology_data, current_port, current_port_pixels,
          x, y_range, pc, num_ports, port_counts

vars == <<panels_w, panels_h, panel_res_w, panel_res_h, max_pixels,
          panel_pixels, topology_data, current_port, current_port_pixels,
          x, y_range, pc, num_ports, port_counts>>

inputs == <<panels_w, panels_h, panel_res_w, panel_res_h, max_pixels, panel_pixels>>

\* ----------------------------------------------------------------- helpers
\* range(n): 0, 1, ..., n-1 (empty when n <= 0)
RangeUp(n) == [i \in 1..n |-> i - 1]

\* range(n - 1, -1, -1): n-1, ..., 1, 0 (empty when n <= 0)
RangeDown(n) == [i \in 1..n |-> n - i]

\* a descending range that stops one short: range(n - 1, 0, -1)
YRangeShort(col, h) == IF col % 2 = 0 THEN RangeUp(h) ELSE [i \in 1..(h - 1) |-> h - i]

\* every column walked upwards
YRangeUpOnly(col, h) == RangeUp(h)

\* rows of column col in visiting order
YRange(col, h) == IF col % 2 = 0 THEN RangeUp(h) ELSE RangeDown(h)

\* capacity test that lets a port through only when strictly below capacity
OverflowsGE(load, pixels, cap) == load + pixels >= cap

\* capacity test that forgets the panel about to be placed
OverflowsLate(load, pixels, cap) == load > cap

\* the capacity check: would this panel overflow the current port?
Overflows(load, pixels, cap) == load + pixels > cap

\* a port "advance" that steps back
PrevPort(p) == p - 1

\* current_port += 1
NextPort(p) == p + 1

\* f"{x+1}-{y+1}"
PanelId(col, row) == ToString(col + 1) \o "-" \o ToString(row + 1)

\* the dict appended for one panel
PanelRecord(col, row, port) ==
    [x |-> col, y |-> row, port |-> port, panel_id |-> PanelId(col, row)]

SetMax(S) == CHOOSE m \in S : \A e \in S : e <= m
SetMin(S) == CHOOSE m \in S : \A e \in S : m <= e

RECURSIVE SortSet(_)
SortSet(S) == IF S = {} THEN << >> ELSE LET m == SetMin(S) IN <<m>> \o SortSet(S \ {m})

\* n / d rounded to the nearest integer, ties to even (d > 0)
RoundHalfEven(n, d) ==
    LET q == n \div d
        r == n % d
    IN  IF 2 * r < d THEN q
        ELSE IF 2 * r > d THEN q + 1
        ELSE IF q % 2 = 0 THEN q ELSE q + 1

\* (load / cap * 100).round(1), in tenths of a percent
Utilization(load, cap) ==
    IF cap > 0 THEN RoundHalfEven(load * 1000, cap)
    ELSE IF cap < 0 THEN RoundHalfEven(-(load * 1000), -cap)
    ELSE IF load > 0 THEN "inf" ELSE IF load < 0 THEN "-inf" ELSE "nan"

PortsOf(td) == {td[i].port : i \in 1..Len(td)}
PanelsOn(td, p) == Cardinality({i \in 1..Len(td) : td[i].port = p})

\* topology_df['port'].max()
NumPorts(td) == SetMax(PortsOf(td))

\* groupby('port').size() with the Pixel Load and Utilization columns
PortCounts(td, pixels, cap) ==
    LET ps == SortSet(PortsOf(td))
    IN  [k \in 1..Len(ps) |->
            LET cnt == PanelsOn(td, ps[k])
            IN  [port |-> ps[k],
                 Panels_Count |-> cnt,
                 Pixel_Load |-> cnt * pixels,
                 Utilization |-> Utilization(cnt * pixels, cap)]]

\* -------------------------------------------------------------------- Init
\* state on entry to the column loop, for arguments (w, h, rw, rh, cap)
Entry(w, h, rw, rh, cap) ==
    /\ panels_w = w
    /\ panels_h = h
    /\ panel_res_w = rw
    /\ panel_res_h = rh
    /\ max_pixels = cap
    /\ panel_pixels = rw * rh
    /\ topology_data = << >>
    /\ current_port = 1
    /\ current_port_pixels = 0
    /\ x = 0
    /\ y_range = << >>
    /\ pc = "for_x"
    /\ num_ports = 0
    /\ port_counts = << >>

\* the application: grid sizes from the widgets, resolutions from the catalog
Init ==
    \E w \in WidthSet, h \in HeightSet, rw \in ResWSet, rh \in ResHSet, cap \in CapSet :
        Entry(w, h, rw, rh, cap)

\* generate_topology called directly with unchecked arguments
InitUnvalidated ==
    \E w \in AnyWidthSet, h \in AnyHeightSet, rw \in ResWSet, rh \in ResHSet, cap \in AnyCapSet :
        Entry(w, h, rw, rh, cap)

\* ----------------------------------------------------------------- actions
\* for x in range(panels_w): enter the next column and fix its direction
NextColumn ==
    /\ pc = "for_x"
    /\ x < panels_w
    /\ y_range' = YRange(x, panels_h)
    /\ pc' = "for_y"
    /\ UNCHANGED <<inputs, topology_data, current_port, current_port_pixels, x,
                   num_ports, port_counts>>

\* one iteration of for y in y_range: check capacity, assign, accumulate
PlacePanel ==
    /\ pc = "for_y"
    /\ y_range # << >>
    /\ LET y == Head(y_range)
           adv == Overflows(current_port_pixels, panel_pixels, max_pixels)
           port == IF adv THEN NextPort(current_port) ELSE current_port
           load == IF adv THEN 0 ELSE current_port_pixels
       IN  /\ current_port' = port
           /\ topology_data' = Append(topology_data, PanelRecord(x, y, port))
           /\ current_port_pixels' = load + panel_pixels
    /\ y_range' = Tail(y_range)
    /\ UNCHANGED <<inputs, x, pc, num_ports, port_counts>>

\* y_range exhausted: back to the column loop
EndColumn ==
    /\ pc = "for_y"
    /\ y_range = << >>
    /\ x' = x + 1
    /\ pc' = "for_x"
    /\ UNCHANGED <<inputs, topology_data, current_port, current_port_pixels,
                   y_range, num_ports, port_counts>>

\* range(panels_w) exhausted: return pd.DataFrame(topology_data)
Return ==
    /\ pc = "for_x"
    /\ x >= panels_w
    /\ pc' = "returned"
    /\ UNCHANGED <<inputs, topology_data, current_port, current_port_pixels,
                   x, y_range, num_ports, port_counts>>

\* the application's report: num_ports and the port usage table; an empty
\* frame has no 'port' column, so the lookup raises KeyError
Report ==
    /\ pc = "returned"
    /\ IF topology_data = << >>
       THEN /\ pc' = "KeyError"
            /\ UNCHANGED <<num_ports, port_counts>>
       ELSE /\ num_ports' = NumPorts(topology_data)
            /\ port_counts' = PortCounts(topology_data, panel_pixels, max_pixels)
            /\ pc' = "reported"
    /\ UNCHANGED <<inputs, topology_data, current_port, current_port_pixels, x, y_range>>

Next == NextColumn \/ PlacePanel \/ EndColumn \/ Return \/ Report

Spec == Init /\ [][Next]_vars

SpecUnvalidated == InitUnvalidated /\ [][Next]_vars

\* ------------------------------------------------------------ properties
Returned == pc \in {"returned", "reported"}
NPanels == Len(topology_data)
Cells == {<<topology_data[i].x, topology_data[i].y>> : i \in 1..NPanels}
PortSeq == [i \in 1..NPanels |-> topology_data[i].port]
Abs(n) == IF n < 0 THEN -n ELSE n
ValidGrid == panels_w >= 1 /\ panels_h >= 1

\* C1: for width >= 1 and height >= 1 the records emitted so far hold
\* pairwise distinct cells of the grid, and the returned result has exactly
\* width * height records covering every cell exactly once.
C1_GridBijection ==
    ValidGrid =>
        /\ \A i, j \in 1..NPanels :
              (topology_data[i].x = topology_data[j].x
                 /\ topology_data[i].y = topology_data[j].y) => i = j
        /\ Cells \subseteq ((0..(panels_w - 1)) \X (0..(panels_h - 1)))
        /\ Returned =>
              /\ NPanels = panels_w * panels_h
              /\ \A c \in 0..(panels_w - 1), r \in 0..(panels_h - 1) :
                    Cardinality({i \in 1..NPanels :
                        topology_data[i].x = c /\ topology_data[i].y = r}) = 1

C1_Witness == Returned /\ panels_w = 3 /\ panels_h = 2 /\ NPanels = 6

\* C2: at every point of the walk and at the end, the pixel load of every
\* port is within max_pixels, except for ports holding exactly one panel
\* whose own pixels exceed max_pixels; when panel_pixels <= max_pixels the
\* running load never exceeds max_pixels either.
C2_PortLoadWithinCapacity ==
    /\ \A p \in PortsOf(topology_data) :
          \/ PanelsOn(topology_data, p) * panel_pixels <= max_pixels
          \/ (PanelsOn(topology_data, p) = 1 /\ panel_pixels > max_pixels)
    /\ panel_pixels <= max_pixels => current_port_pixels <= max_pixels

C2_Witness ==
    /\ Returned
    /\ panel_pixels <= max_pixels
    /\ Cardinality(PortsOf(topology_data)) >= 2
    /\ \E p \in PortsOf(topology_data) :
          /\ PanelsOn(topology_data, p) >= 2
          /\ PanelsOn(topology_data, p) * panel_pixels = max_pixels

\* C3: for a non-empty grid and positive panel_pixels and max_pixels the
\* first panel is on port 1 and the ports used are exactly 1..maximum port.
C3_PortsStartAtOneContiguous ==
    (Returned /\ ValidGrid /\ panel_pixels >= 1 /\ max_pixels >= 1 /\ NPanels >= 1) =>
        /\ topology_data[1].port = 1
        /\ PortsOf(topology_data) = 1..NumPorts(topology_data)
        /\ pc = "reported" => num_ports = NumPorts(topology_data)

\* C4: port numbers are non-decreasing along the wiring order, so each
\* port is one contiguous run and a closed port gets no further panel.
C4_PortsNonDecreasing ==
    /\ \A i, j \in 1..NPanels : i < j => topology_data[i].port <= topology_data[j].port
    /\ \A i \in 1..NPanels : topology_data[i].port <= current_port

C4_Witness ==
    /\ Returned
    /\ Cardinality(PortsOf(topology_data)) >= 3
    /\ \E p \in PortsOf(topology_data) : PanelsOn(topology_data, p) >= 2

\* C5: the panel at sequence position k (from 0) is in column k div height,
\* at row k mod height in an even column and height-1 - k mod height in an
\* odd column.
C5_SerpentineOrder ==
    ValidGrid =>
        \A i \in 1..NPanels :
            LET k == i - 1
                c == k \div panels_h
            IN  /\ topology_data[i].x = c
                /\ topology_data[i].y =
                      IF c % 2 = 0 THEN k % panels_h
                                   ELSE panels_h - 1 - (k % panels_h)

C5_Witness == Returned /\ panels_w = 3 /\ panels_h = 3 /\ NPanels = 9

\* C6: panels consecutive in the wiring order are physically adjacent
\* (Manhattan distance exactly 1), also across column changes.
C6_ConsecutiveAdjacent ==
    \A i \in 1..(NPanels - 1) :
        Abs(topology_data[i + 1].x - topology_data[i].x)
          + Abs(topology_data[i + 1].y - topology_data[i].y) = 1

C6_Witness ==
    /\ Returned /\ panels_w >= 3 /\ panels_h >= 2
    /\ \E i \in 1..(NPanels - 1) : topology_data[i + 1].x = topology_data[i].x + 1

InvalidInput == panels_w <= 0 \/ panels_h <= 0 \/ max_pixels <= 0

\* C7: when width <= 0, height <= 0 or max_pixels <= 0 is supplied the
\* planner rejects the input before running the walk: no panel assignment
\* and no port summary is ever produced (no partial result).
C7_InvalidInputRejected ==
    InvalidInput =>
        /\ topology_data = << >>
        /\ port_counts = << >>

Flagged(row) == "SinglePanelOverflow" \in DOMAIN row /\ row.SinglePanelOverflow = TRUE

\* C8: when panel_pixels exceeds max_pixels the walk still assigns all
\* width * height panels, each alone on its port, and every reported port
\* whose load exceeds max_pixels carries an explicit overflow flag.
C8_OverflowFlagged ==
    (pc = "reported" /\ panel_pixels > max_pixels) =>
        /\ NPanels = panels_w * panels_h
        /\ \A p \in PortsOf(topology_data) : PanelsOn(topology_data, p) = 1
        /\ \A k \in 1..Len(port_counts) :
              port_counts[k].Pixel_Load > max_pixels =>
                 \/ Flagged(port_counts[k])
                 \/ \E i \in 1..NPanels :
                       /\ topology_data[i].port = port_counts[k].port
                       /\ Flagged(topology_data[i])

\* C9: each panel goes to the port after the previous panel's port exactly
\* when that port's accumulated load plus panel_pixels is strictly greater
\* than max_pixels, and to the same port otherwise (a panel that fills the
\* port exactly stays); the running load is that of the current port. So
\* 2x2 panels of 100 with capacity 250 get ports 1,1,2,2 in the order
\* (0,0),(0,1),(1,1),(1,0), and 3x1 panels of 50 with capacity 50 get 1,2,3.
C9_GreedyAdvance ==
    /\ \A i \in 1..NPanels :
          LET prev == IF i = 1 THEN 1 ELSE topology_data[i - 1].port
              load == panel_pixels
                        * Cardinality({j \in 1..(i - 1) : topology_data[j].port = prev})
          IN  topology_data[i].port =
                 IF load + panel_pixels > max_pixels THEN prev + 1 ELSE prev
    /\ current_port_pixels = panel_pixels * PanelsOn(topology_data, current_port)
    /\ (Returned /\ panels_w = 2 /\ panels_h = 2 /\ panel_pixels = 100 /\ max_pixels = 250) =>
          /\ PortSeq = <<1, 1, 2, 2>>
          /\ [i \in 1..NPanels |-> <<topology_data[i].x, topology_data[i].y>>]
                = << <<0, 0>>, <<0, 1>>, <<1, 1>>, <<1, 0>> >>
    /\ (Returned /\ panels_w = 3 /\ panels_h = 1 /\ panel_pixels = 50 /\ max_pixels = 50) =>
          PortSeq = <<1, 2, 3>>

C9_Witness ==
    /\ Returned /\ panels_w = 3 /\ panels_h = 1 /\ panel_pixels = 50 /\ max_pixels = 50
    /\ PortSeq = <<1, 2, 3>>

\* C10: when 1 <= panel_pixels <= max_pixels every port but the last holds
\* exactly floor(max_pixels / panel_pixels) panels, the last holds between
\* 1 and that many, and the number of ports is
\* ceil(width * height / floor(max_pixels / panel_pixels)): no smaller
\* number of groups of at most that many panels covers the wiring order.
C10_GreedyMaximal ==
    (Returned /\ ValidGrid /\ 1 <= panel_pixels /\ panel_pixels <= max_pixels) =>
        LET k == max_pixels \div panel_pixels
            n == panels_w * panels_h
            P == NumPorts(topology_data)
        IN  /\ PortsOf(topology_data) = 1..P
            /\ \A p \in 1..(P - 1) : PanelsOn(topology_data, p) = k
            /\ PanelsOn(topology_data, P) \in 1..k
            /\ P = (n + k - 1) \div k
            /\ \A m \in 0..(P - 1) : m * k < n
            /\ pc = "reported" => (num_ports = P /\ Len(port_counts) = P)

C10_Witness ==
    /\ pc = "reported"
    /\ panel_pixels <= max_pixels
    /\ max_pixels \div panel_pixels >= 2
    /\ num_ports >= 3
    /\ PanelsOn(topology_data, num_ports) < max_pixels \div panel_pixels
====
